---- MODULE Spec2Model ----
(***************************************************************************)
(* The query filter parser of query/filter/filter.go: Factory.Factorize,  *)
(* Factory.WrappedFilter, ParseSelector, buildValueMatcher and the type    *)
(* inference that toTigrisType writes back onto the shared field objects.  *)
(*                                                                         *)
(* A filter object is a sequence of clauses in document order; a name is a *)
(* sequence of one-character strings, so that strings.LastIndex and the    *)
(* slicing of ParseSelector are computed, not assumed.                     *)
(***************************************************************************)
EXTENDS Integers, Sequences, FiniteSets, TLC

VARIABLES fields, factory, reqFilter, pc, first, second

vars == <<fields, factory, reqFilter, pc, first, second>>

(***************************************************************************)
(* Bounds of the input universe.                                           *)
(***************************************************************************)
MaxClauses == 2
MaxOps == 2
MaxElems == 2
MaxElemClauses == 2
MaxNameLen == 3

SeqsUpTo(S, n) == UNION {[1..m -> S] : m \in 0..n}

(***************************************************************************)
(* schema.FieldType, jsonparser.ValueType and the operator keys.           *)
(***************************************************************************)
UnknownType == "unknown"
NullType == "null"
BoolType == "bool"
Int64Type == "int64"
DoubleType == "double"
StringType == "string"
ArrayType == "array"
ObjectType == "object"

JNotExist == "NotExist"
JString == "String"
JNumber == "Number"
JObject == "Object"
JArray == "Array"
JBoolean == "Boolean"
JNull == "Null"
JUnknown == "Unknown"

AndOP == <<"$and">>
OrOP == <<"$or">>
EQ == "$eq"
GT == "$gt"
GTE == "$gte"
LT == "$lt"
LTE == "$lte"
REGEX == "$regex"
CONTAINS == "$contains"
NOT == "$not"
CollationKey == "$collation"

(***************************************************************************)
(* Errors.                                                                 *)
(***************************************************************************)
NoErr == [kind |-> "nil", msg |-> ""]
InvalidArgument(msg) == [kind |-> "InvalidArgument", msg |-> msg]
CE(msg) == [kind |-> "error", msg |-> msg]

(***************************************************************************)
(* Collations. A collation is an object: the one the factory was built    *)
(* with and the one built from an operator's $collation are different      *)
(* objects even when both are case sensitive.                              *)
(***************************************************************************)
NilCollation == [origin |-> "nil", case |-> ""]
RequestCollation(c) == [origin |-> "request", case |-> c]
NewSortKeyCollation == [origin |-> "sortkey", case |-> "csk"]
NewCollationFrom(apiCollation) == [origin |-> "operator", case |-> apiCollation]
IsCaseInsensitive(c) == c.case = "ci"
IsValid(apiCollation) ==
  IF apiCollation \in {"ci", "cs"} THEN NoErr
  ELSE InvalidArgument("collation case is not supported")

NewFactory(collation) ==
  [collation |-> collation, buildForSecondaryIndex |-> FALSE]
NewFactoryForSecondaryIndex ==
  [collation |-> NewSortKeyCollation, buildForSecondaryIndex |-> TRUE]

(***************************************************************************)
(* Queryable fields. The directory is a sequence of fields, each with its  *)
(* nested allow-list; a pointer names a place in it, DynPtr the dynamic    *)
(* field ParseSelector creates and NilPtr no field.                        *)
(***************************************************************************)
QField(name, dt, st) ==
  [FieldName |-> name, DataType |-> dt, SubType |-> st]
TopField(name, dt, st, nested) ==
  [FieldName |-> name, DataType |-> dt, SubType |-> st,
   AllowedNestedQFields |-> nested]
NewDynamicQueryableField(name, leaf, dt) ==
  [FieldName |-> name, DataType |-> dt, SubType |-> UnknownType]
NoDyn == QField(<<>>, UnknownType, UnknownType)

NilPtr == [i |-> 0, j |-> 0]
DynPtr == [i |-> -1, j |-> 0]
Ptr(i, j) == [i |-> i, j |-> j]

\* The parser's view of memory: the shared directory, the dynamic field of the
\* selector being parsed, the log of the writes to the directory, the operator
\* keys buildValueMatcher processed and what it returned.
NoBvm == [called |-> FALSE, value |-> FALSE, like |-> FALSE]
Heap(fs) == [fields |-> fs, dyn |-> NoDyn, log |-> <<>>, ops |-> <<>>,
             bvm |-> NoBvm]

Deref(h, p) ==
  IF p = DynPtr THEN h.dyn
  ELSE IF p.j = 0 THEN QField(h.fields[p.i].FieldName,
                              h.fields[p.i].DataType, h.fields[p.i].SubType)
  ELSE h.fields[p.i].AllowedNestedQFields[p.j]

SetDataType(h, p, jsonType, t) ==
  IF p = DynPtr THEN [h EXCEPT !.dyn.DataType = t]
  ELSE LET w == [ptr |-> p, old |-> Deref(h, p).DataType,
                 jsonType |-> jsonType, new |-> t]
       IN IF p.j = 0
          THEN [h EXCEPT !.fields[p.i].DataType = t, !.log = Append(@, w)]
          ELSE [h EXCEPT !.fields[p.i].AllowedNestedQFields[p.j].DataType = t,
                         !.log = Append(@, w)]

(***************************************************************************)
(* Type inference.                                                         *)
(***************************************************************************)
jsonToTigrisType(jsonType) ==
  CASE jsonType = JBoolean -> BoolType
    [] jsonType = JString -> StringType
    [] jsonType = JNumber -> DoubleType
    [] jsonType = JArray -> ArrayType
    [] jsonType = JNull -> NullType
    [] OTHER -> UnknownType

\* A slip: the inferred type is written back but the type the field had
\* before is what the caller gets.
toTigrisTypeStale(h, p, jsonType) ==
  LET f == Deref(h, p) IN
  CASE f.DataType = ArrayType ->
         IF jsonType # JArray
            /\ ~(f.SubType = ArrayType \/ f.SubType = ObjectType)
         THEN [t |-> f.SubType, h |-> h]
         ELSE [t |-> jsonToTigrisType(jsonType), h |-> h]
    [] f.DataType = UnknownType ->
         [t |-> f.DataType,
          h |-> SetDataType(h, p, jsonType, jsonToTigrisType(jsonType))]
    [] OTHER -> [t |-> f.DataType, h |-> h]

\* A slip: the field is rewritten from the observed shape whatever its type.
toTigrisTypeRewrite(h, p, jsonType) ==
  LET f == Deref(h, p) IN
  IF f.DataType = ArrayType
     /\ jsonType # JArray
     /\ ~(f.SubType = ArrayType \/ f.SubType = ObjectType)
  THEN [t |-> f.SubType, h |-> h]
  ELSE [t |-> jsonToTigrisType(jsonType),
        h |-> SetDataType(h, p, jsonType, jsonToTigrisType(jsonType))]

toTigrisType(h, p, jsonType) ==
  LET f == Deref(h, p) IN
  CASE f.DataType = ArrayType ->
         IF jsonType # JArray
            /\ ~(f.SubType = ArrayType \/ f.SubType = ObjectType)
         THEN [t |-> f.SubType, h |-> h]
         ELSE [t |-> jsonToTigrisType(jsonType), h |-> h]
    [] f.DataType = UnknownType ->
         LET h2 == SetDataType(h, p, jsonType, jsonToTigrisType(jsonType))
         IN [t |-> Deref(h2, p).DataType, h |-> h2]
    [] OTHER -> [t |-> f.DataType, h |-> h]

(***************************************************************************)
(* Values, matchers and filter nodes. Every node is one record shape, so   *)
(* that trees of different kinds can be compared.                          *)
(***************************************************************************)
NilBytes == "<nil>"
NoValue == [type |-> "", raw |-> "", coll |-> NilCollation]
NewValue(t, v) ==
  [val |-> [type |-> t, raw |-> v, coll |-> NilCollation], err |-> NoErr]
NewValueUsingCollation(t, v, collation) ==
  [val |-> [type |-> t, raw |-> v, coll |-> collation], err |-> NoErr]

NoMatcher == [kind |-> "nil", value |-> NoValue, pattern |-> "",
              collation |-> NilCollation]
NewEqualityMatcher(val) ==
  [kind |-> EQ, value |-> val, pattern |-> "", collation |-> NilCollation]
NewMatcher(key, val) ==
  [m |-> [kind |-> key, value |-> val, pattern |-> "",
          collation |-> NilCollation],
   err |-> NoErr]
BadPattern == "("
NewLikeMatcher(key, v, collation) ==
  IF key = REGEX /\ v = BadPattern
  THEN [m |-> NoMatcher, err |-> InvalidArgument("invalid regex pattern")]
  ELSE [m |-> [kind |-> key, value |-> NoValue, pattern |-> v,
               collation |-> collation],
        err |-> NoErr]

NoFieldView == [ptr |-> NilPtr, FieldName |-> <<>>, dynType |-> ""]
FieldView(h, p) ==
  [ptr |-> p, FieldName |-> Deref(h, p).FieldName,
   dynType |-> IF p = DynPtr THEN h.dyn.DataType ELSE ""]

Node(kind, parent, field, matcher, collation, children) ==
  [kind |-> kind, parent |-> parent, field |-> field, matcher |-> matcher,
   collation |-> collation, filter |-> children]
NilFilter == Node("nil", NilPtr, NoFieldView, NoMatcher, NilCollation, <<>>)
EmptyFilter ==
  Node("EmptyFilter", NilPtr, NoFieldView, NoMatcher, NilCollation, <<>>)
NewSelector(parent, field, matcher, collation) ==
  Node("Selector", parent, field, matcher, collation, <<>>)
NewLikeFilter(field, matcher) ==
  Node("LikeFilter", NilPtr, field, matcher, NilCollation, <<>>)
AndFilter(children) ==
  Node("AndFilter", NilPtr, NoFieldView, NoMatcher, NilCollation, children)
OrFilter(children) ==
  Node("OrFilter", NilPtr, NoFieldView, NoMatcher, NilCollation, children)
NewAndFilter(children) ==
  IF children = <<>>
  THEN [filter |-> NilFilter, err |-> InvalidArgument("and filter is empty")]
  ELSE [filter |-> AndFilter(children), err |-> NoErr]
NewOrFilter(children) ==
  IF children = <<>>
  THEN [filter |-> NilFilter, err |-> InvalidArgument("or filter is empty")]
  ELSE [filter |-> OrFilter(children), err |-> NoErr]

(***************************************************************************)
(* Field resolution.                                                       *)
(***************************************************************************)
RECURSIVE NestedEach(_, _, _)
\* The inner loop of filterToQueryableField: the first nested field of that
\* name, or 0.
NestedEach(nested, filterField, j) ==
  IF j > Len(nested) THEN 0
  ELSE IF nested[j].FieldName = filterField THEN j
  ELSE NestedEach(nested, filterField, j + 1)

RECURSIVE FieldsEach(_, _, _, _, _)
\* The outer loop: a field of that name ends it, a nested match does not.
FieldsEach(fs, filterField, i, field, parent) ==
  IF i > Len(fs) THEN [field |-> field, parent |-> parent]
  ELSE IF fs[i].FieldName = filterField
       THEN [field |-> Ptr(i, 0), parent |-> parent]
  ELSE LET j == NestedEach(fs[i].AllowedNestedQFields, filterField, 1)
       IN IF j # 0
          THEN FieldsEach(fs, filterField, i + 1, Ptr(i, j), Ptr(i, 0))
          ELSE FieldsEach(fs, filterField, i + 1, field, parent)

filterToQueryableField(fs, filterField) ==
  FieldsEach(fs, filterField, 1, NilPtr, NilPtr)

\* A slip: the first dot, not the last, splits the name.
FirstIndex(s, c) ==
  IF {i \in 1..Len(s) : s[i] = c} = {} THEN -1
  ELSE (CHOOSE i \in 1..Len(s) :
          s[i] = c /\ \A k \in 1..Len(s) : s[k] = c => i <= k) - 1

\* strings.LastIndex(s, "."), 0-based, -1 when there is no dot.
LastIndex(s, c) ==
  IF {i \in 1..Len(s) : s[i] = c} = {} THEN -1
  ELSE (CHOOSE i \in 1..Len(s) :
          s[i] = c /\ \A k \in 1..Len(s) : s[k] = c => k <= i) - 1

Unresolved ==
  [field |-> NilPtr, parent |-> NilPtr, dyn |-> NoDyn,
   err |-> InvalidArgument("querying on non schema field")]

\* Lines 283-288: r2 is what the name up to its last dot resolves to.
ResolvePrefix(filterField, idx, r2) ==
  IF r2.field = NilPtr /\ r2.parent = NilPtr THEN Unresolved
  ELSE [field |-> DynPtr, parent |-> r2.field,
        dyn |-> NewDynamicQueryableField(filterField,
                  SubSeq(filterField, idx + 2, Len(filterField)),
                  UnknownType),
        err |-> NoErr]

\* Lines 278-288: the name is no field of the directory.
ResolveMissing(fs, filterField, idx) ==
  IF idx <= 0 THEN Unresolved
  ELSE ResolvePrefix(filterField, idx,
                     filterToQueryableField(fs, SubSeq(filterField, 1, idx)))

\* Lines 276-289: r is what the whole name resolves to.
ResolveFound(fs, filterField, r) ==
  IF r.field # NilPtr
  THEN [field |-> r.field, parent |-> r.parent, dyn |-> NoDyn, err |-> NoErr]
  ELSE ResolveMissing(fs, filterField, LastIndex(filterField, "."))

\* The first part of ParseSelector: the field and the parent the selector
\* targets, the dynamic field when one is created, or the error.
ResolveField(fs, filterField) ==
  ResolveFound(fs, filterField, filterToQueryableField(fs, filterField))

(***************************************************************************)
(* The operator object of a selector.                                      *)
(***************************************************************************)
IsLiteral(dataType) == dataType \in {JBoolean, JNumber, JString, JNull, JArray}

NoCollationErr(err) == [collation |-> NilCollation, err |-> err]

\* Lines 406-423: c is the first $collation key of the object.
CollationOf(c, buildForSecondaryIndex) ==
  IF c.dt # JObject THEN NoCollationErr(CE("cannot unmarshal the collation"))
  ELSE IF IsValid(c.raw) # NoErr THEN NoCollationErr(IsValid(c.raw))
  ELSE IF buildForSecondaryIndex /\ IsCaseInsensitive(NewCollationFrom(c.raw))
  THEN NoCollationErr(InvalidArgument("found case insensitive collation"))
  ELSE [collation |-> NewCollationFrom(c.raw), err |-> NoErr]

buildCollation(input, factoryCollation, buildForSecondaryIndex) ==
  IF \A i \in 1..Len(input) : input[i].key # CollationKey
  THEN [collation |-> factoryCollation, err |-> NoErr]
  ELSE CollationOf(input[CHOOSE i \in 1..Len(input) :
                           /\ input[i].key = CollationKey
                           /\ \A k \in 1..(i - 1) :
                                input[k].key # CollationKey],
                   buildForSecondaryIndex)

\* A slip: every field type takes a pattern operator.
LikeSupportedAny(f) == TRUE

\* Line 384: the field types a pattern operator is legal on.
LikeSupported(f) ==
  \/ f.DataType = StringType
  \/ (f.DataType = ArrayType /\ f.SubType = StringType)

\* What the callback leaves in the captured variables, with the error it
\* returns to ObjectEach.
Captured(h, valueMatcher, likeMatcher, err) ==
  [h |-> h, valueMatcher |-> valueMatcher, likeMatcher |-> likeMatcher,
   err |-> err]

\* Lines 366-372: the value an ordering operator is bound to.
OperandValue(t, raw, factoryCollation, buildForSecondaryIndex, collation) ==
  IF buildForSecondaryIndex
  THEN NewValueUsingCollation(t, raw, factoryCollation)
  ELSE IF collation # NilCollation
  THEN NewValueUsingCollation(t, raw, collation)
  ELSE NewValue(t, raw)

\* Line 377.
MatcherBound(h, likeMatcher, m) == Captured(h, m.m, likeMatcher, m.err)

\* Lines 373-378.
MatcherOfValue(h, key, valueMatcher, likeMatcher, v) ==
  IF v.err # NoErr THEN Captured(h, valueMatcher, likeMatcher, v.err)
  ELSE MatcherBound(h, likeMatcher, NewMatcher(key, v.val))

\* Lines 362-378: tt is what toTigrisType answered.
ValueCallback(op, factoryCollation, buildForSecondaryIndex, collation, valueMatcher, likeMatcher, tt) ==
  MatcherOfValue(tt.h, op.key, valueMatcher, likeMatcher,
                 OperandValue(tt.t, op.raw, factoryCollation,
                              buildForSecondaryIndex, collation))

\* Lines 388-389.
LikeBound(h, valueMatcher, m) == Captured(h, valueMatcher, m.m, m.err)

\* Lines 381-389: f is the field as it is when the key is processed.
LikeCallback(h, op, f, collation, valueMatcher, likeMatcher) ==
  IF op.dt # JString
  THEN Captured(h, valueMatcher, likeMatcher,
                InvalidArgument("string is only supported type"))
  ELSE IF ~LikeSupported(f)
  THEN Captured(h, valueMatcher, likeMatcher,
                InvalidArgument("field type is not supported"))
  ELSE LikeBound(h, valueMatcher, NewLikeMatcher(op.key, op.raw, collation))

\* The keys buildValueMatcher processed, each with the type the field had
\* when the key was reached.
Seen(h, op, f) ==
  [h EXCEPT !.ops = Append(@, [key |-> op.key, dt |-> op.dt,
                               raw |-> op.raw, DataType |-> f.DataType,
                               SubType |-> f.SubType])]

\* The callback of buildValueMatcher on one key.
MatcherCallback(h, op, p, factoryCollation, buildForSecondaryIndex, collation, valueMatcher, likeMatcher) ==
  CASE op.key \in {EQ, GT, GTE, LT, LTE} ->
         IF IsLiteral(op.dt)
         THEN ValueCallback(op, factoryCollation, buildForSecondaryIndex,
                            collation, valueMatcher, likeMatcher,
                            toTigrisType(Seen(h, op, Deref(h, p)), p, op.dt))
         ELSE Captured(Seen(h, op, Deref(h, p)), valueMatcher, likeMatcher,
                       NoErr)
    [] op.key \in {REGEX, CONTAINS, NOT} ->
         LikeCallback(Seen(h, op, Deref(h, p)), op, Deref(h, p), collation,
                      valueMatcher, likeMatcher)
    [] op.key = CollationKey ->
         Captured(Seen(h, op, Deref(h, p)), valueMatcher, likeMatcher, NoErr)
    [] OTHER ->
         Captured(Seen(h, op, Deref(h, p)), valueMatcher, likeMatcher,
                  InvalidArgument("expression is not supported"))

RECURSIVE MatcherEach(_, _, _, _, _, _, _, _, _, _)

\* ObjectEach after the callback returned r: it ends at the first error.
MatcherNext(r, input, i, p, factoryCollation, buildForSecondaryIndex, collation) ==
  IF r.err # NoErr THEN r
  ELSE MatcherEach(r.h, input, i + 1, p, factoryCollation,
                   buildForSecondaryIndex, collation, r.valueMatcher,
                   r.likeMatcher, r.err)

\* jsonparser.ObjectEach over the operator object.
MatcherEach(h, input, i, p, factoryCollation, buildForSecondaryIndex, collation, valueMatcher, likeMatcher, err) ==
  IF i > Len(input) \/ err # NoErr
  THEN Captured(h, valueMatcher, likeMatcher, err)
  ELSE MatcherNext(MatcherCallback(h, input[i], p, factoryCollation,
                                   buildForSecondaryIndex, collation,
                                   valueMatcher, likeMatcher),
                   input, i, p, factoryCollation, buildForSecondaryIndex,
                   collation)

NoMatchers(h, err) ==
  [h |-> h, valueMatcher |-> NoMatcher, likeMatcher |-> NoMatcher,
   collation |-> NilCollation, err |-> err]

\* Line 397: what buildValueMatcher returns after the walk r.
MatchersReturned(r, collation) ==
  [h |-> [r.h EXCEPT !.bvm = [called |-> TRUE,
                              value |-> r.valueMatcher # NoMatcher,
                              like |-> r.likeMatcher # NoMatcher]],
   valueMatcher |-> r.valueMatcher, likeMatcher |-> r.likeMatcher,
   collation |-> collation, err |-> r.err]

\* Lines 349-397: c is what buildCollation answered.
MatchersUnder(h, input, p, factoryCollation, buildForSecondaryIndex, c) ==
  IF c.err # NoErr THEN NoMatchers(h, c.err)
  ELSE MatchersReturned(
         MatcherEach(h, input, 1, p, factoryCollation,
                     buildForSecondaryIndex, c.collation, NoMatcher,
                     NoMatcher, NoErr),
         c.collation)

\* input is the operator object; emptyBytes tells a value of no bytes at
\* all, which is what the length test of line 339 is about.
buildValueMatcher(h, input, emptyBytes, p, factoryCollation, buildForSecondaryIndex) ==
  IF emptyBytes THEN NoMatchers(h, InvalidArgument("empty object"))
  ELSE MatchersUnder(h, input, p, factoryCollation, buildForSecondaryIndex,
                     buildCollation(input, factoryCollation,
                                    buildForSecondaryIndex))

(***************************************************************************)
(* ParseSelector.                                                          *)
(***************************************************************************)
Parsed(filter, err, h) ==
  [filter |-> filter, err |-> err, h |-> [h EXCEPT !.dyn = NoDyn]]

\* A slip: a value matcher, when there is one, is looked at first.
SelectFilterValueFirst(parent, field, valueMatcher, likeMatcher, collation, factoryCollation) ==
  IF valueMatcher # NoMatcher
  THEN NewSelector(parent, field, valueMatcher,
                   IF collation # NilCollation THEN collation
                   ELSE factoryCollation)
  ELSE IF likeMatcher # NoMatcher THEN NewLikeFilter(field, likeMatcher)
  ELSE NewSelector(parent, field, valueMatcher, factoryCollation)

\* Lines 321-328: the filter made of what buildValueMatcher returned.
SelectFilter(parent, field, valueMatcher, likeMatcher, collation, factoryCollation) ==
  IF likeMatcher # NoMatcher THEN NewLikeFilter(field, likeMatcher)
  ELSE IF collation # NilCollation
  THEN NewSelector(parent, field, valueMatcher, collation)
  ELSE NewSelector(parent, field, valueMatcher, factoryCollation)

\* Lines 304-310: the value of a literal, null being no bytes.
LiteralValue(fac, c, t) ==
  IF fac.collation # NilCollation
  THEN NewValueUsingCollation(t, IF c.dt = JNull THEN NilBytes ELSE c.raw,
                              fac.collation)
  ELSE NewValue(t, IF c.dt = JNull THEN NilBytes ELSE c.raw)

\* Lines 311-315.
SelectorOfValue(h, fac, r, val) ==
  IF val.err # NoErr THEN Parsed(NilFilter, val.err, h)
  ELSE Parsed(NewSelector(r.parent, FieldView(h, r.field),
                          NewEqualityMatcher(val.val), fac.collation),
              NoErr, h)

\* Lines 297-315: tt is what toTigrisType answered.
ParseLiteral(fac, c, r, tt) ==
  SelectorOfValue(tt.h, fac, r, LiteralValue(fac, c, tt.t))

\* Lines 317-328: b is what buildValueMatcher answered.
ParseObject(fac, r, b) ==
  IF b.err # NoErr THEN Parsed(NilFilter, b.err, b.h)
  ELSE Parsed(SelectFilter(r.parent, FieldView(b.h, r.field), b.valueMatcher,
                           b.likeMatcher, b.collation, fac.collation),
              NoErr, b.h)

\* Lines 276-331: r is how the key resolved. c is one clause: its key, the
\* type jsonparser gives its value, and the value (the bytes of a literal,
\* or the keys of an operator object).
ParseResolved(h, fac, c, r) ==
  IF r.err # NoErr THEN Parsed(NilFilter, r.err, h)
  ELSE IF r.field = NilPtr
  THEN Parsed(NilFilter, InvalidArgument("querying on non schema field"), h)
  ELSE IF IsLiteral(c.dt)
  THEN ParseLiteral(fac, c, r,
                    toTigrisType([h EXCEPT !.dyn = r.dyn], r.field, c.dt))
  ELSE IF c.dt = JObject
  THEN ParseObject(fac, r,
                   buildValueMatcher([h EXCEPT !.dyn = r.dyn], c.ops, FALSE,
                                     r.field, fac.collation,
                                     fac.buildForSecondaryIndex))
  ELSE Parsed(NilFilter,
              InvalidArgument("unable to parse the comparison operator"), h)

ParseSelector(h, fac, c) ==
  ParseResolved(h, fac, c, ResolveField(h.fields, c.k))

(***************************************************************************)
(* $and and $or.                                                           *)
(***************************************************************************)
RECURSIVE ConvertEach(_, _, _)
ConvertEach(expr, i, filters) ==
  IF i > Len(expr) THEN [filters |-> filters, err |-> NoErr]
  ELSE IF expr[i] = NilFilter
  THEN [filters |-> <<>>, err |-> CE("not able to decode to filter")]
  ELSE ConvertEach(expr, i + 1, Append(filters, expr[i]))

convertExprListToFilters(expr) == ConvertEach(expr, 1, <<>>)

RECURSIVE UnmarshalFilterEach(_, _, _, _, _, _)
RECURSIVE UnmarshalArray(_, _, _, _, _)
RECURSIVE UnmarshalAnd(_, _, _)
RECURSIVE UnmarshalOr(_, _, _)

\* Lines 190-197: the dispatch of one key of an element.
DispatchElement(h, fac, c) ==
  CASE c.k = AndOP -> UnmarshalAnd(h, fac, c.elems)
    [] c.k = OrOP -> UnmarshalOr(h, fac, c.elems)
    [] OTHER -> ParseSelector(h, fac, c)

\* Lines 192-198: the callback assigns filter and err from the dispatch r
\* of key i, whatever filter held, and returns nil.
UnmarshalFilterAssign(r, fac, input, i, filter) ==
  UnmarshalFilterEach(r.h, fac, input, i + 1, r.filter, r.err)

\* The walk of UnmarshalFilter over one element of a $and or $or array; the
\* key after a failed one returns the captured error, which ends the walk.
UnmarshalFilterEach(h, fac, input, i, filter, err) ==
  IF i > Len(input) \/ err # NoErr
  THEN [filter |-> filter, err |-> err, h |-> h]
  ELSE UnmarshalFilterAssign(DispatchElement(h, fac, input[i]), fac, input,
                             i, filter)

UnmarshalFilter(h, fac, input) ==
  UnmarshalFilterEach(h, fac, input, 1, NilFilter, NoErr)

ArrayNext(r, fac, input, i, expr) ==
  IF r.err # NoErr THEN [expr |-> <<>>, err |-> r.err, h |-> r.h]
  ELSE UnmarshalArray(r.h, fac, input, i + 1, Append(expr, r.filter))

\* expression.UnmarshalArray: every element through UnmarshalFilter, in
\* order, up to the first error.
UnmarshalArray(h, fac, input, i, expr) ==
  IF i > Len(input) THEN [expr |-> expr, err |-> NoErr, h |-> h]
  ELSE ArrayNext(UnmarshalFilter(h, fac, input[i]), fac, input, i, expr)

LogicalBuilt(h, n) == [filter |-> n.filter, err |-> n.err, h |-> h]

AndOfList(h, l) ==
  IF l.err # NoErr THEN [filter |-> NilFilter, err |-> l.err, h |-> h]
  ELSE LogicalBuilt(h, NewAndFilter(l.filters))

AndOfArray(a) ==
  IF a.err # NoErr THEN [filter |-> NilFilter, err |-> a.err, h |-> a.h]
  ELSE AndOfList(a.h, convertExprListToFilters(a.expr))

UnmarshalAnd(h, fac, input) ==
  AndOfArray(UnmarshalArray(h, fac, input, 1, <<>>))

OrOfList(h, l) ==
  IF l.err # NoErr THEN [filter |-> NilFilter, err |-> l.err, h |-> h]
  ELSE LogicalBuilt(h, NewOrFilter(l.filters))

OrOfArray(a) ==
  IF a.err # NoErr THEN [filter |-> NilFilter, err |-> a.err, h |-> a.h]
  ELSE OrOfList(a.h, convertExprListToFilters(a.expr))

UnmarshalOr(h, fac, input) ==
  OrOfArray(UnmarshalArray(h, fac, input, 1, <<>>))

(***************************************************************************)
(* Factorize and WrappedFilter.                                            *)
(***************************************************************************)
\* Lines 160-167: the dispatch of one top-level key.
Dispatch(h, fac, c) ==
  CASE c.k = AndOP -> UnmarshalAnd(h, fac, c.elems)
    [] c.k = OrOP -> UnmarshalOr(h, fac, c.elems)
    [] OTHER -> ParseSelector(h, fac, c)

Factorized(filters, err, h, calls) ==
  [filters |-> filters, err |-> err, h |-> h, calls |-> calls]

\* The keys Factorize dispatched: each with its place, its error and the
\* length of the write log when it returned.
Called(calls, i, k, r) ==
  Append(calls, [i |-> i, k |-> k, err |-> r.err, log |-> Len(r.h.log)])

RECURSIVE FactorizeEach(_, _, _, _, _, _, _)

\* A slip: the error of a key is dropped and the walk goes on.
FactorizeNextOn(r, fac, input, i, filters, calls) ==
  FactorizeEach(r.h, fac, input, i + 1,
                IF r.err # NoErr THEN filters ELSE Append(filters, r.filter),
                NoErr, Called(calls, i, input[i].k, r))

\* Lines 168-173: the callback returns the error of the dispatch r of key
\* i, which ends the walk, or appends the filter.
FactorizeNext(r, fac, input, i, filters, calls) ==
  IF r.err # NoErr
  THEN Factorized(filters, r.err, r.h, Called(calls, i, input[i].k, r))
  ELSE FactorizeEach(r.h, fac, input, i + 1, Append(filters, r.filter),
                     r.err, Called(calls, i, input[i].k, r))

\* jsonparser.ObjectEach with the callback of Factorize.
FactorizeEach(h, fac, input, i, filters, err, calls) ==
  IF i > Len(input) \/ err # NoErr THEN Factorized(filters, err, h, calls)
  ELSE FactorizeNext(Dispatch(h, fac, input[i]), fac, input, i, filters,
                     calls)

\* Lines 175-179.
FactorizeReturn(r) ==
  IF r.err # NoErr THEN Factorized(<<>>, r.err, r.h, r.calls) ELSE r

\* req.len0 tells the request of no bytes; req.clauses are the keys of the
\* object otherwise.
Factorize(h, fac, req) ==
  IF req.len0 THEN Factorized(<<>>, NoErr, h, <<>>)
  ELSE FactorizeReturn(FactorizeEach(h, fac, req.clauses, 1, <<>>, NoErr,
                                     <<>>))

\* The search string of a filter, as a sequence of tokens ("" is <<>>).
RECURSIVE ToSearchFilter(_)
RECURSIVE JoinSearch(_, _, _)
JoinSearch(children, i, token) ==
  IF i > Len(children) THEN <<>>
  ELSE (IF i = 1 THEN <<>> ELSE <<token>>)
       \o ToSearchFilter(children[i])
       \o JoinSearch(children, i + 1, token)

RECURSIVE FilterIsSearchIndexed(_)
FilterIsSearchIndexed(f) ==
  CASE f.kind = "EmptyFilter" -> FALSE
    [] f.kind = "emptyFilter" -> FALSE
    [] f.kind = "LikeFilter" -> FALSE
    [] f.kind \in {"AndFilter", "OrFilter"} ->
         \A i \in 1..Len(f.filter) : FilterIsSearchIndexed(f.filter[i])
    [] OTHER -> TRUE

ToSearchFilter(f) ==
  CASE f.kind = "EmptyFilter" -> <<>>
    [] f.kind = "emptyFilter" -> <<>>
    [] f.kind = "LikeFilter" -> <<>>
    [] f.kind = "AndFilter" ->
         IF FilterIsSearchIndexed(f) THEN JoinSearch(f.filter, 1, "&&")
         ELSE <<>>
    [] f.kind = "OrFilter" ->
         IF FilterIsSearchIndexed(f) THEN JoinSearch(f.filter, 1, "||")
         ELSE <<>>
    [] OTHER -> <<f.matcher.kind, f.matcher.value.raw>>

\* The package variable emptyFilter: a WrappedFilter around an EmptyFilter.
emptyFilter ==
  Node("emptyFilter", NilPtr, NoFieldView, NoMatcher, NilCollation, <<>>)

NilWrapped == [Filter |-> NilFilter, searchFilter |-> <<>>]

Wrapped(f) == [Filter |-> f, searchFilter |-> ToSearchFilter(f)]

\* A slip: a single filter gets a conjunction around it too.
NewWrappedFilterAlwaysAnd(filters) ==
  IF Len(filters) = 0 THEN Wrapped(emptyFilter)
  ELSE Wrapped(AndFilter(filters))

NewWrappedFilter(filters) ==
  IF Len(filters) = 0 THEN Wrapped(emptyFilter)
  ELSE IF Len(filters) <= 1 THEN Wrapped(filters[1])
  ELSE Wrapped(AndFilter(filters))

WrappedNone(w) == w.Filter = emptyFilter
SearchFilter(w) == w.searchFilter
IsSearchIndexed(w) == FilterIsSearchIndexed(w.Filter)

\* What a call of Factory.WrappedFilter gave: the wrapper and the error,
\* and with them the directory after the call and what the call did on its
\* way.
Outcome(r) ==
  [done |-> TRUE,
   w |-> IF r.err # NoErr THEN NilWrapped ELSE NewWrappedFilter(r.filters),
   err |-> r.err, filters |-> r.filters, calls |-> r.calls,
   fields |-> r.h.fields, log |-> r.h.log, ops |-> r.h.ops, bvm |-> r.h.bvm]

\* Factory.WrappedFilter over the directory fs.
WrappedFilter(fs, fac, req) == Outcome(Factorize(Heap(fs), fac, req))

NoOutcome ==
  [done |-> FALSE, w |-> NilWrapped, err |-> NoErr, filters |-> <<>>,
   calls |-> <<>>, fields |-> <<>>, log |-> <<>>, ops |-> <<>>,
   bvm |-> NoBvm]

(***************************************************************************)
(* The field directory and the requests.                                   *)
(***************************************************************************)
Dir ==
  << TopField(<<"s">>, StringType, UnknownType, <<>>),
     TopField(<<"n">>, Int64Type, UnknownType, <<>>),
     TopField(<<"u">>, UnknownType, UnknownType, <<>>),
     TopField(<<"t">>, ArrayType, StringType, <<>>),
     TopField(<<"a">>, ArrayType, ObjectType,
              << QField(<<"a", ".", "x">>, UnknownType, UnknownType) >>) >>

LitClause(k, dt, raw) ==
  [k |-> k, dt |-> dt, raw |-> raw, ops |-> <<>>, elems |-> <<>>]
OpClause(k, ops) ==
  [k |-> k, dt |-> JObject, raw |-> "", ops |-> ops, elems |-> <<>>]
LogClause(k, elems) ==
  [k |-> k, dt |-> JArray, raw |-> "", ops |-> <<>>, elems |-> elems]
Op(key, dt, raw) == [key |-> key, dt |-> dt, raw |-> raw]
Request(clauses) == [len0 |-> FALSE, clauses |-> clauses]
NoBytes == [len0 |-> TRUE, clauses |-> <<>>]

Factories ==
  {NewFactory(NilCollation), NewFactory(RequestCollation("cs")),
   NewFactory(RequestCollation("ci")), NewFactoryForSecondaryIndex}

\* One selector with an operator object of up to MaxOps keys.
OpEntries ==
  {Op(EQ, JNumber, "1"), Op(EQ, JString, "x"), Op(EQ, JObject, "{}"),
   Op(LT, JNumber, "1"),
   Op(REGEX, JString, "x"), Op(REGEX, JString, BadPattern),
   Op(REGEX, JNumber, "1"), Op(NOT, JString, "x"),
   Op(CONTAINS, JString, "x"),
   Op(CollationKey, JObject, "cs"), Op(CollationKey, JObject, "ci"),
   Op(CollationKey, JObject, "bad"),
   Op("$in", JNumber, "1")}
OpNames == {<<"s">>, <<"n">>, <<"u">>, <<"t">>, <<"a", ".", "a">>}
OpRequests ==
  {Request(<<OpClause(k, ops)>>) : k \in OpNames,
                                   ops \in SeqsUpTo(OpEntries, MaxOps)}

\* Up to MaxClauses top-level keys.
TopClauses ==
  {LitClause(<<"s">>, JString, "x"), LitClause(<<"u">>, JNumber, "1"),
   LitClause(<<"u">>, JString, "x"), LitClause(<<"z">>, JNumber, "1"),
   LitClause(<<"u">>, JNull, "null"),
   OpClause(<<"n">>, <<Op(REGEX, JString, "x")>>),
   LogClause(OrOP, << <<LitClause(<<"s">>, JString, "x")>>,
                      <<LitClause(<<"u">>, JBoolean, "true")>> >>),
   LogClause(AndOP, << <<LitClause(<<"z">>, JNumber, "1")>> >>)}
TopRequests ==
  {NoBytes} \cup {Request(cs) : cs \in SeqsUpTo(TopClauses, MaxClauses)}

\* One $and or $or of up to MaxElems elements of up to MaxElemClauses keys.
ElemClauses ==
  {LitClause(<<"s">>, JString, "x"), LitClause(<<"u">>, JNumber, "1"),
   LitClause(<<"z">>, JNumber, "1")}
Elements == SeqsUpTo(ElemClauses, MaxElemClauses)
LogRequests ==
  {Request(<<LogClause(k, es)>>) : k \in {AndOP, OrOP},
                                   es \in SeqsUpTo(Elements, MaxElems)}

\* One selector of every name of up to MaxNameLen characters.
NameChars == {"a", "x", "."}
Names == SeqsUpTo(NameChars, MaxNameLen)
NameRequests == {Request(<<LitClause(k, JNumber, "1")>>) : k \in Names}

\* The requests of a sequence of parses over one directory.
Literals ==
  {<<JBoolean, "true">>, <<JNumber, "1">>, <<JString, "x">>,
   <<JArray, "[1]">>, <<JNull, "null">>}
SeqNames == {<<"s">>, <<"u">>, <<"t">>, <<"a", ".", "x">>, <<"a", ".", "a">>}
SeqRequests ==
  {Request(<<LitClause(k, l[1], l[2])>>) : k \in SeqNames, l \in Literals}
  \cup {Request(<<OpClause(k, <<Op(GTE, l[1], l[2])>>)>>) :
          k \in {<<"u">>, <<"t">>}, l \in Literals}
  \cup {Request(<<OpClause(<<"u">>, <<Op(REGEX, JString, "x")>>)>>)}

(***************************************************************************)
(* One request parsed by a factory, then parsed again by a second factory  *)
(* built over the same directory with the same collation.                  *)
(***************************************************************************)
Init ==
  /\ fields = Dir
  /\ \/ reqFilter \in OpRequests /\ factory \in Factories
     \/ /\ reqFilter \in TopRequests \cup LogRequests \cup NameRequests
        /\ factory = NewFactory(NilCollation)
  /\ pc = "start"
  /\ first = NoOutcome
  /\ second = NoOutcome

Parse ==
  /\ pc = "start"
  /\ first' = WrappedFilter(fields, factory, reqFilter)
  /\ fields' = first'.fields
  /\ pc' = "parsed"
  /\ UNCHANGED <<factory, reqFilter, second>>

ParseAgain ==
  /\ pc = "parsed"
  /\ second' = WrappedFilter(fields, factory, reqFilter)
  /\ fields' = second'.fields
  /\ pc' = "parsed again"
  /\ UNCHANGED <<factory, reqFilter, first>>

Next == Parse \/ ParseAgain

Spec == Init /\ [][Next]_vars

(***************************************************************************)
(* Any sequence of requests parsed over the one shared directory.          *)
(***************************************************************************)
InitSeq ==
  /\ fields = Dir
  /\ factory = NewFactory(NilCollation)
  /\ reqFilter = NoBytes
  /\ pc = "start"
  /\ first = NoOutcome
  /\ second = NoOutcome

Serve(r) ==
  /\ reqFilter' = r
  /\ first' = WrappedFilter(fields, factory, r)
  /\ fields' = first'.fields
  /\ pc' = "parsed"
  /\ UNCHANGED <<factory, second>>

NextSeq == \E r \in SeqRequests : Serve(r)

SpecSeq == InitSeq /\ [][NextSeq]_vars

(***************************************************************************)
(* One literal clause {f: v} and its operator form {f: {"$eq": v}}, each   *)
(* parsed once, in either order, by a factory that is not built for the    *)
(* secondary index.                                                        *)
(***************************************************************************)
EqNames ==
  {<<"s">>, <<"n">>, <<"u">>, <<"t">>, <<"a", ".", "x">>, <<"a", ".", "a">>,
   <<"z">>}
EqRequests ==
  {Request(<<LitClause(k, l[1], l[2])>>) : k \in EqNames, l \in Literals}
EqFactories == {fac \in Factories : ~fac.buildForSecondaryIndex}

\* The clause {f: {"$eq": v}} of the literal clause {f: v}.
EqForm(r) ==
  Request(<<OpClause(r.clauses[1].k,
                     <<Op(EQ, r.clauses[1].dt, r.clauses[1].raw)>>)>>)

InitEq ==
  /\ fields = Dir
  /\ reqFilter \in EqRequests
  /\ factory \in EqFactories
  /\ pc = "start"
  /\ first = NoOutcome
  /\ second = NoOutcome

ParseLiteralForm ==
  /\ ~first.done
  /\ first' = WrappedFilter(fields, factory, reqFilter)
  /\ fields' = first'.fields
  /\ pc' = IF second.done THEN "both forms" ELSE "literal form"
  /\ UNCHANGED <<factory, reqFilter, second>>

ParseEqForm ==
  /\ ~second.done
  /\ second' = WrappedFilter(fields, factory, EqForm(reqFilter))
  /\ fields' = second'.fields
  /\ pc' = IF first.done THEN "both forms" ELSE "eq form"
  /\ UNCHANGED <<factory, reqFilter, first>>

NextEq == ParseLiteralForm \/ ParseEqForm

SpecEq == InitEq /\ [][NextEq]_vars

(***************************************************************************)
(* What the properties below talk about.                                   *)
(***************************************************************************)
\* The calls of WrappedFilter made so far.
Outs == {o \in {first, second} : o.done}

ValueKeys == {EQ, GT, GTE, LT, LTE}
LikeKeys == {REGEX, CONTAINS, NOT}

\* The request is one selector, on a name the directory resolves.
OneSelector ==
  /\ ~reqFilter.len0
  /\ Len(reqFilter.clauses) = 1
  /\ reqFilter.clauses[1].k \notin {AndOP, OrOP}
TheClause == reqFilter.clauses[1]
OneOperatorObject == OneSelector /\ TheClause.dt = JObject
OneLogical ==
  /\ ~reqFilter.len0
  /\ Len(reqFilter.clauses) = 1
  /\ reqFilter.clauses[1].k \in {AndOP, OrOP}

Largest(S) == CHOOSE i \in S : \A k \in S : k <= i
Smallest(S) == CHOOSE i \in S : \A k \in S : i <= k

\* The names of the directory, nested allow-lists included, and the place
\* of a name.
DirPtrs(fs) ==
  {Ptr(i, 0) : i \in 1..Len(fs)}
  \cup {Ptr(i, j) : i \in 1..Len(fs), j \in 1..1}
NameAt(fs, p) ==
  IF p.j = 0 THEN fs[p.i].FieldName
  ELSE fs[p.i].AllowedNestedQFields[p.j].FieldName
TypeAt(fs, p) ==
  IF p.j = 0 THEN fs[p.i].DataType
  ELSE fs[p.i].AllowedNestedQFields[p.j].DataType
PtrsOf(fs) ==
  {p \in DirPtrs(fs) : p.j <= Len(fs[p.i].AllowedNestedQFields)}
DirNames(fs) == {NameAt(fs, p) : p \in PtrsOf(fs)}

\* The type each JSON shape is inferred as.
ShapeType ==
  [x \in {JBoolean, JNumber, JString, JArray, JNull} |->
     CASE x = JBoolean -> "bool"
       [] x = JNumber -> "double"
       [] x = JString -> "string"
       [] x = JArray -> "array"
       [] x = JNull -> "null"]

\* C1: the root of the wrapper follows the number n of filters Factorize
\* returns, one per top-level key in document order: no bytes and {} give an
\* empty list and no error, and a wrapper with None() true, not search
\* indexed, with an empty search string; n = 1 gives that filter itself;
\* n >= 2 gives one AndFilter over the n filters in order; None() is true
\* only for n = 0.
RootByClauseCount ==
  \A o \in Outs :
    /\ (reqFilter.len0 \/ reqFilter.clauses = <<>>)
         => o.err = NoErr /\ o.filters = <<>>
    /\ o.err = NoErr =>
         /\ Len(o.filters) = Len(reqFilter.clauses)
         /\ \A i \in 1..Len(o.filters) :
              IF reqFilter.clauses[i].k = AndOP
              THEN o.filters[i].kind = "AndFilter"
              ELSE IF reqFilter.clauses[i].k = OrOP
              THEN o.filters[i].kind = "OrFilter"
              ELSE o.filters[i].field.FieldName = reqFilter.clauses[i].k
         /\ Len(o.filters) = 0 =>
              /\ WrappedNone(o.w)
              /\ ~IsSearchIndexed(o.w)
              /\ SearchFilter(o.w) = <<>>
         /\ Len(o.filters) = 1 => o.w.Filter = o.filters[1]
         /\ Len(o.filters) >= 2 =>
              /\ o.w.Filter.kind = "AndFilter"
              /\ o.w.Filter.filter = o.filters
         /\ WrappedNone(o.w) <=> Len(o.filters) = 0

\* A request of one key parsed: its filter is the root, with no conjunction.
RootByClauseCountWitness ==
  /\ first.done
  /\ first.err = NoErr
  /\ Len(first.filters) = 1
  /\ first.w.Filter.kind = "Selector"

\* C2: Factorize is fail-fast. The keys are dispatched in document order;
\* when the call fails, the last key dispatched is the first that failed,
\* its error is the error returned, no filter list and no wrapper come back,
\* and nothing is written after that key returned; when the call succeeds
\* every key was dispatched and none failed.
FailFast ==
  \A o \in Outs :
    /\ \A i \in 1..Len(o.calls) :
         o.calls[i].i = i /\ o.calls[i].k = reqFilter.clauses[i].k
    /\ \A i \in 1..(Len(o.calls) - 1) : o.calls[i].err = NoErr
    /\ o.err # NoErr =>
         /\ Len(o.calls) >= 1
         /\ o.calls[Len(o.calls)].err = o.err
         /\ o.filters = <<>>
         /\ o.w = NilWrapped
         /\ Len(o.log) = o.calls[Len(o.calls)].log
    /\ o.err = NoErr =>
         /\ Len(o.calls) = Len(reqFilter.clauses)
         /\ \A i \in 1..Len(o.calls) : o.calls[i].err = NoErr

\* The first of two keys failed and the second, which would have written
\* the type of the untyped field u, was never dispatched.
FailFastWitness ==
  /\ first.done
  /\ first.err # NoErr
  /\ Len(reqFilter.clauses) = 2
  /\ Len(first.calls) = 1
  /\ reqFilter.clauses[2].k = <<"u">>
  /\ TypeAt(fields, Ptr(3, 0)) = UnknownType

RECURSIVE Selects(_, _)
\* The filter f has a selector on the field named k.
Selects(f, k) ==
  \/ f.kind \in {"Selector", "LikeFilter"} /\ f.field.FieldName = k
  \/ \E i \in 1..Len(f.filter) : Selects(f.filter[i], k)

\* C3: every element of a $and or $or array that parsed gives one child, and
\* every clause of the element is part of that child.
ElementClausesKept ==
  \A o \in Outs :
    (OneLogical /\ o.err = NoErr) =>
      /\ Len(o.w.Filter.filter) = Len(TheClause.elems)
      /\ \A i \in 1..Len(TheClause.elems) :
           \A j \in 1..Len(TheClause.elems[i]) :
             Selects(o.w.Filter.filter[i], TheClause.elems[i][j].k)

\* C4: an operator object with no keys is an error: no filter comes back.
EmptyOperatorObjectFails ==
  \A o \in Outs :
    (OneOperatorObject /\ TheClause.ops = <<>>
       /\ ResolveField(Dir, TheClause.k).err = NoErr)
      => o.err # NoErr /\ o.w = NilWrapped

\* The operator keys that bind a matcher: the ordering keys on a literal and
\* the pattern keys.
ValueAt == {i \in 1..Len(TheClause.ops) :
              TheClause.ops[i].key \in ValueKeys
              /\ IsLiteral(TheClause.ops[i].dt)}
LikeAt == {i \in 1..Len(TheClause.ops) : TheClause.ops[i].key \in LikeKeys}

\* C5 as stated: an operator object that parses and has a matcher key gives
\* exactly one of the two matchers, and the filter is made of the matcher of
\* the last matcher key.
LastOperatorKeyWins ==
  \A o \in Outs :
    (OneOperatorObject /\ o.err = NoErr /\ ValueAt \cup LikeAt # {}) =>
      /\ o.bvm.value # o.bvm.like
      /\ o.w.Filter.matcher.kind =
           TheClause.ops[Largest(ValueAt \cup LikeAt)].key
      /\ o.w.Filter.kind =
           IF Largest(ValueAt \cup LikeAt) \in LikeAt THEN "LikeFilter"
           ELSE "Selector"

\* C5 amended: an operator object that parses gives a LikeFilter with the
\* matcher of its last pattern key when it has a pattern key, wherever the
\* ordering keys stand; otherwise a Selector with the matcher of its last
\* ordering key, and with no matcher when no ordering key has a literal.
PatternFirstThenLastWins ==
  \A o \in Outs :
    (OneOperatorObject /\ o.err = NoErr) =>
      IF LikeAt # {}
      THEN /\ o.w.Filter.kind = "LikeFilter"
           /\ o.w.Filter.matcher.kind = TheClause.ops[Largest(LikeAt)].key
           /\ o.w.Filter.matcher.pattern = TheClause.ops[Largest(LikeAt)].raw
           /\ o.bvm.like
           /\ o.bvm.value <=> ValueAt # {}
      ELSE /\ o.w.Filter.kind = "Selector"
           /\ ~o.bvm.like
           /\ IF ValueAt = {} THEN o.w.Filter.matcher = NoMatcher
              ELSE /\ o.w.Filter.matcher.kind =
                        TheClause.ops[Largest(ValueAt)].key
                   /\ o.w.Filter.matcher.value.raw =
                        TheClause.ops[Largest(ValueAt)].raw

\* A $regex key followed by a $eq key on a string field: a LikeFilter.
PatternFirstWitness ==
  /\ first.done
  /\ first.err = NoErr
  /\ OneOperatorObject
  /\ Len(TheClause.ops) = 2
  /\ TheClause.ops[1].key = REGEX
  /\ TheClause.ops[2].key = EQ
  /\ first.bvm.value
  /\ first.w.Filter.kind = "LikeFilter"

\* The $collation of the operator object, when it has one.
CollationAt ==
  {i \in 1..Len(TheClause.ops) : TheClause.ops[i].key = CollationKey}
CollationWon ==
  IF factory.buildForSecondaryIndex \/ CollationAt = {}
  THEN factory.collation
  ELSE NewCollationFrom(TheClause.ops[Smallest(CollationAt)].raw)

\* C6: a Selector built of an operator object binds its value under the
\* collation that won and carries that collation: the factory's in
\* secondary-index mode, else the $collation of the object when it has one,
\* else the factory's.
SelectorCarriesCollationWon ==
  \A o \in Outs :
    (OneOperatorObject /\ o.err = NoErr /\ o.w.Filter.kind = "Selector"
       /\ o.w.Filter.matcher # NoMatcher) =>
      /\ o.w.Filter.matcher.value.coll = CollationWon
      /\ o.w.Filter.collation = CollationWon

\* The field type a processed key e saw takes a pattern operator.
StringCompatible(e) ==
  \/ e.DataType = "string"
  \/ (e.DataType = "array" /\ e.SubType = "string")

\* C7: a pattern key is accepted only with a string value on a field that,
\* when the key is processed, is a string or an array of strings; any other
\* pattern key ends the parse with an invalid-argument error and no filter;
\* a parse that succeeds with a pattern key gives a LikeFilter, and on a
\* string field a pattern key with a string value (a pattern that compiles)
\* does succeed.
PatternOperatorTyping ==
  \A o \in Outs :
    OneOperatorObject =>
      /\ \A i \in 1..Len(o.ops) :
           (o.ops[i].key \in LikeKeys
              /\ ~(o.ops[i].dt = JString /\ StringCompatible(o.ops[i]))) =>
             /\ o.err.kind = "InvalidArgument"
             /\ o.w = NilWrapped
             /\ i = Len(o.ops)
      /\ (o.err = NoErr /\ \E i \in 1..Len(o.ops) : o.ops[i].key \in LikeKeys)
           => o.w.Filter.kind = "LikeFilter"
      /\ (/\ TheClause.k = <<"s">>
          /\ Len(TheClause.ops) = 1
          /\ TheClause.ops[1].key \in LikeKeys
          /\ TheClause.ops[1].dt = JString
          /\ TheClause.ops[1].raw # BadPattern) =>
             /\ o.err = NoErr
             /\ o.w.Filter.kind = "LikeFilter"
             /\ o.w.Filter.matcher.kind = TheClause.ops[1].key

\* A $regex with a string value reached the numeric field n: an error.
PatternOperatorTypingWitness ==
  /\ first.done
  /\ OneOperatorObject
  /\ TheClause.k = <<"n">>
  /\ Len(first.ops) = 1
  /\ first.ops[1].key = REGEX
  /\ first.ops[1].dt = JString
  /\ first.ops[1].DataType = "int64"
  /\ first.err.kind = "InvalidArgument"

\* The name k is a name of the directory; the name k up to its last dot is.
Direct(k) == k \in DirNames(Dir)
PrefixOf(k) ==
  {SubSeq(k, 1, i - 1) : i \in {i \in 1..Len(k) :
                                  /\ k[i] = "."
                                  /\ \A j \in (i + 1)..Len(k) : k[j] # "."}}
ViaPrefix(k) == PrefixOf(k) \cap DirNames(Dir) # {}

\* C8: the name of a selector resolves iff it is a name of the directory
\* (nested allow-lists included) or, failing that, the name up to its last
\* dot is; in the second case the selector is on a new dynamic field, of no
\* known type when it is made, under the field of that prefix, and the
\* directory gains no entry; a name that does not resolve gives an
\* invalid-argument error and no filter.
FieldResolution ==
  \A o \in Outs :
    (OneSelector /\ IsLiteral(TheClause.dt)) =>
      /\ (Direct(TheClause.k) \/ ViaPrefix(TheClause.k)) <=> o.err = NoErr
      /\ o.err # NoErr => o.err.kind = "InvalidArgument" /\ o.w = NilWrapped
      /\ (o.err = NoErr /\ Direct(TheClause.k)) =>
           /\ o.w.Filter.field.ptr \in PtrsOf(Dir)
           /\ NameAt(Dir, o.w.Filter.field.ptr) = TheClause.k
      /\ (o.err = NoErr /\ ~Direct(TheClause.k)) =>
           /\ o.w.Filter.field.ptr = DynPtr
           /\ o.w.Filter.field.FieldName = TheClause.k
           /\ o.w.Filter.field.dynType = ShapeType[TheClause.dt]
           /\ o.w.Filter.matcher.value.type = ShapeType[TheClause.dt]
           /\ o.w.Filter.parent \in PtrsOf(Dir)
           /\ {NameAt(Dir, o.w.Filter.parent)} = PrefixOf(TheClause.k)
      /\ Len(fields) = Len(Dir)
      /\ \A p \in PtrsOf(Dir) :
           /\ Len(fields[p.i].AllowedNestedQFields)
                = Len(Dir[p.i].AllowedNestedQFields)
           /\ NameAt(fields, p) = NameAt(Dir, p)

\* A name that is no name of the directory resolved through its prefix.
FieldResolutionWitness ==
  /\ first.done
  /\ first.err = NoErr
  /\ OneSelector
  /\ IsLiteral(TheClause.dt)
  /\ ~Direct(TheClause.k)
  /\ first.w.Filter.field.ptr = DynPtr

\* C9: the same bytes parsed again by a second factory over the same
\* directory with the same collation give the same outcome: the same error,
\* or the same tree (shape, fields, value types, bound values, collations),
\* with the directory as the first parse left it.
ParsedAgainTheSame ==
  second.done =>
    /\ second.err = first.err
    /\ second.w = first.w
    /\ second.filters = first.filters
    /\ second.fields = first.fields

\* The first parse inferred and wrote the type of an untyped field, and the
\* second parse is done.
ParsedAgainTheSameWitness ==
  /\ second.done
  /\ first.err = NoErr
  /\ first.log # <<>>
  /\ second.w.Filter.kind \in {"Selector", "AndFilter", "OrFilter"}

\* The shape a request of one selector shows its field.
ShapeOf(r) ==
  IF r.len0 \/ r.clauses = <<>> THEN JNotExist
  ELSE IF IsLiteral(r.clauses[1].dt) THEN r.clauses[1].dt
  ELSE IF r.clauses[1].ops # <<>> THEN r.clauses[1].ops[1].dt
  ELSE JNotExist

\* C10: over any sequence of parses on one directory, a parse changes the
\* type of a directory field only when that type is unknown, and then to
\* the type of the shape the request shows (bool, double, string, array,
\* null): a type that is not unknown stays as it is, arrays included.
TypeWriteBack ==
  [][\A p \in PtrsOf(Dir) :
       /\ TypeAt(fields, p) # "unknown"
            => TypeAt(fields', p) = TypeAt(fields, p)
       /\ TypeAt(fields', p) # TypeAt(fields, p) =>
            /\ ShapeOf(reqFilter') \in DOMAIN ShapeType
            /\ TypeAt(fields', p) = ShapeType[ShapeOf(reqFilter')]
            /\ NameAt(Dir, p) = reqFilter'.clauses[1].k
            /\ \E i \in 1..Len(first'.log) : first'.log[i].ptr = p
       /\ \A i \in 1..Len(first'.log) :
            /\ first'.log[i].old = "unknown"
            /\ first'.log[i].new = ShapeType[first'.log[i].jsonType]]_vars

\* The field u got its type from an earlier parse, and the last parse showed
\* it another shape and wrote nothing.
TypeWriteBackWitness ==
  /\ first.done
  /\ first.err = NoErr
  /\ OneSelector
  /\ TheClause.k = <<"u">>
  /\ TypeAt(fields, Ptr(3, 0)) = "bool"
  /\ ShapeOf(reqFilter) = JString
  /\ first.log = <<>>

\* C11: the default selector is $eq. For every resolvable field f and every
\* literal v (bool, number, string, array or null), with a factory that is
\* not built for the secondary index and no $collation, the clause {f: v}
\* and the clause {f: {"$eq": v}} build the same equality Selector: the same
\* parent, field and collation, and a Value of the same field type, the same
\* raw value (null being no bytes in both forms) and the same collation.
DefaultSelectorIsEq ==
  pc = "both forms" /\ first.err = NoErr =>
    /\ second.err = NoErr
    /\ first.w.Filter.kind = "Selector"
    /\ first.w.Filter.matcher.kind = EQ
    /\ second.w.Filter = first.w.Filter

====
